---------------------------- MODULE Spec2Model ----------------------------
(***************************************************************************)
(* SoundCanvas (src/main.cpp): a PNG with an alpha channel is decoded,     *)
(* converted to a grayscale grid and an opacity grid, and generateWavFile  *)
(* turns the grid into 16-bit samples by additive synthesis, trims the     *)
(* leading and trailing near-silence and writes the result.                *)
(*                                                                         *)
(* Numbers.  The program computes in IEEE doubles.  TLC has 32-bit         *)
(* integers only, so a double x is modelled by the integer x * One         *)
(* (One == 2^13), products are truncated back to that scale, and the       *)
(* phase of each sinusoid is reduced exactly (as a rational number of      *)
(* cycles) before the sine is taken at a resolution of PhaseSteps steps    *)
(* per cycle with Bhaskara's rational approximation.  NaN is a value of    *)
(* its own.  Everything that is integer in the program (bytes, indices,   *)
(* the short samples, the trimming scans) is modelled exactly.             *)
(***************************************************************************)
EXTENDS Integers, Sequences, FiniteSets, TLC

\* ------------------------------------------------------------- bounds
MaxRows == 2          \* grid rows (= width of the source picture)
MaxCols == 2          \* grid columns (= height of the source picture)
MaxLen == 5           \* longest buffer of the trimmer's own specification
MaxExcess == 64       \* how far beyond [-1.0, 1.0] the quantiser's inputs go

\* -------------------------------------------------- program constants
sampleRate == 44100
minFrequency == 200
maxFrequency == 8000
silenceThreshold == 500
ShortScale == 32767
samplesPerRow == sampleRate \div 10
frequencyRange == maxFrequency - minFrequency

\* ----------------------------------------------- double, in fixed point
One == 8192
PhaseSteps == 256
\* NaN: a value no finite sum of the model reaches
NaN == 0 - 1000000000

Abs(x) == IF x < 0 THEN -x ELSE x

Sgn(x) == IF x < 0 THEN -1 ELSE 1

\* x / y on integers, truncated toward zero (C++ conversion of a quotient)
TruncDiv(x, y) == Sgn(x) * (Abs(x) \div y)

\* the product of two doubles
Mul(a, b) ==
    IF a = NaN \/ b = NaN THEN NaN ELSE TruncDiv(a * b, One)

\* the sum of two doubles
Add(a, b) ==
    IF a = NaN \/ b = NaN THEN NaN ELSE a + b

\* static_cast<double>(byte) / 255.0
ByteToUnit(b) == (b * One) \div 255

\* ---------------------------------------------------------- matrices
\* cv::Mat of bytes: data[r + 1][c + 1] is at<uchar>(r, c)
EmptyMat == [rows |-> 0, cols |-> 0, data |-> <<>>]

IsEmpty(m) == m.rows = 0 \/ m.cols = 0

MatSize(m) == <<m.cols, m.rows>>

At(m, r, c) == m.data[r + 1][c + 1]

\* cv::rotate(src, dst, ROTATE_90_COUNTERCLOCKWISE)
Rotate90CCW(m) ==
    [rows |-> m.cols, cols |-> m.rows,
     data |-> [r \in 1..m.cols |->
                 [c \in 1..m.rows |-> At(m, c - 1, m.cols - r)]]]

\* cv::flip(m, m, 0): around the x axis
FlipVertical(m) ==
    [rows |-> m.rows, cols |-> m.cols,
     data |-> [r \in 1..m.rows |->
                 [c \in 1..m.cols |-> At(m, m.rows - r, c - 1)]]]

\* cv::flip(m, m, 1): around the y axis
FlipHorizontal(m) ==
    [rows |-> m.rows, cols |-> m.cols,
     data |-> [r \in 1..m.rows |->
                 [c \in 1..m.cols |-> At(m, r - 1, m.cols - c)]]]

Orient(m) == FlipHorizontal(FlipVertical(Rotate90CCW(m)))

\* --------------------------------------------------------- synthesis
\* line 145: minFrequency + frequencyRange * col / (cols - 1), kept as the
\* exact fraction num / den Hz.  With cols - 1 = 0 the only column is 0 and
\* the quotient is 0.0 / 0.0, a NaN: the fraction 0 / 0.
Frequency(col, cols) ==
    [num |-> minFrequency * (cols - 1) + frequencyRange * col,
     den |-> cols - 1]

\* sine at u / PhaseSteps of a cycle (Bhaskara I), 0 at u = 0 and at the half
\* cycle, +-1.0 at the quarters
SinStep(u) ==
    LET H == PhaseSteps \div 2
        x == IF u < H THEN u ELSE u - H
        v == x * (H - x)
        m == (4 * v * One) \div ((5 * H * H) \div 4 - v)
    IN IF u < H THEN m ELSE -m

\* faulty variant: time starts one sample late
TimeIndexShifted(i, row) == i + 1 + row * samplesPerRow

\* line 141: t = (i + row * samplesPerRow) / sampleRate, as its numerator
TimeIndex(i, row) == i + row * samplesPerRow

\* line 150: sin(2.0 * CV_PI * frequency * t) with t = k / sampleRate
SinAt(freq, k) ==
    IF freq.den = 0
    THEN NaN
    ELSE LET D == freq.den * sampleRate
             n == (freq.num * k) % D
         IN SinStep((n * PhaseSteps) \div D)

\* faulty variant: the 0.1 floor applied to the intensity
IntensityFloored(image, row, col) ==
    LET v == ByteToUnit(At(image, row, col))
    IN IF v < One \div 10 THEN One \div 10 ELSE v

\* faulty variant: every row reads the pixels of row 0
IntensityFirstRow(image, row, col) == ByteToUnit(At(image, 0, col))

\* line 146
Intensity(image, row, col) == ByteToUnit(At(image, row, col))

\* lines 147, 149: the opacity, floored to 0.1
Amplitude(alphaChannel, row, col) ==
    LET alpha == ByteToUnit(At(alphaChannel, row, col))
    IN IF alpha < One \div 10 THEN One \div 10 ELSE alpha

\* lines 142-151: the sum over the columns col .. cols - 1 added to acc
RECURSIVE Accumulate(_, _, _, _, _, _)
Accumulate(image, alphaChannel, row, col, k, acc) ==
    IF col < image.cols
    THEN Accumulate(image, alphaChannel, row, col + 1, k,
                    Add(acc, Mul(Mul(Intensity(image, row, col),
                                     Amplitude(alphaChannel, row, col)),
                                 SinAt(Frequency(col, image.cols), k))))
    ELSE acc

\* faulty variant: no clamp
ClampNone(v) == v

\* line 153: std::clamp(v, -1.0, 1.0); every comparison with a NaN is false
Clamp(v) ==
    IF v = NaN THEN NaN
    ELSE IF v < -One THEN -One
    ELSE IF One < v THEN One
    ELSE v

\* line 154: sampleValue * 32767, in units of 1 / One
Scale(v) == IF v = NaN THEN NaN ELSE v * ShortScale

\* line 154: does static_cast<short> fit?  (NaN and values outside the range
\* of short are undefined behaviour)
Fits(x) ==
    /\ x # NaN
    /\ TruncDiv(x, One) >= -32768
    /\ TruncDiv(x, One) <= 32767

\* faulty variant: rounds to the nearest integer, halves away from zero
ToShortRound(x, ub) ==
    IF Fits(x) THEN Sgn(x) * ((2 * Abs(x) + One) \div (2 * One)) ELSE ub

\* line 154: static_cast<short>(x) truncates toward zero; ub is what the
\* build yields where the conversion is undefined
ToShort(x, ub) ==
    IF Fits(x) THEN TruncDiv(x, One) ELSE ub

\* lines 141-153: the clamped sampleValue of intra-row sample i of a row
SampleValue(image, alphaChannel, row, i) ==
    Clamp(Accumulate(image, alphaChannel, row, 0, TimeIndex(i, row), 0))

\* lines 140-154: sampleValue * 32767 for every sample of one row, in order
RowScaled(image, alphaChannel, row) ==
    <<>> \o [j \in 1..samplesPerRow |->
                Scale(SampleValue(image, alphaChannel, row, j - 1))]

\* line 154: the samples one row appends, from its scaled values
RowSamples(scaled, ub) ==
    [j \in 1..Len(scaled) |-> ToShort(scaled[j], ub)]

\* floating-point events of one row: a division by zero, a conversion of a
\* NaN, a conversion of a value outside short
RowEvents(cols, scaled) ==
    (IF cols - 1 = 0 THEN {"div0"} ELSE {})
    \cup (IF \E j \in 1..Len(scaled) : scaled[j] = NaN
          THEN {"castNaN"} ELSE {})
    \cup (IF \E j \in 1..Len(scaled) : scaled[j] # NaN /\ ~Fits(scaled[j])
          THEN {"castOverflow"} ELSE {})

\* what static_cast<short> may yield where it is undefined (a NaN, a value
\* outside the range of short)
UndefinedShorts == {-32768, 0}

\* ---------------------------------------------------------- trimming
\* faulty variant: a sample at the threshold counts as silent
IsSilentBelowOrAt(x) == Abs(x) <= silenceThreshold

\* lines 168, 173: std::abs(sample) < silenceThreshold
IsSilent(x) == Abs(x) < silenceThreshold

\* lines 168-170: the loop "while (start < stop && |a[start]| < threshold)
\* ++start" and where it leaves start.  The range is walked by halves (the
\* loop over [start, stop) is the loop over its first half and, if that ran
\* to the end, the loop over its second half), which keeps the evaluation
\* shallow on long buffers.
RECURSIVE ScanStartTo(_, _, _)
ScanStartTo(a, start, stop) ==
    IF start >= stop
    THEN start
    ELSE IF stop - start = 1
    THEN (IF IsSilent(a[start + 1]) THEN start + 1 ELSE start)
    ELSE LET mid == (start + stop) \div 2
             s == ScanStartTo(a, start, mid)
         IN IF s = mid THEN ScanStartTo(a, mid, stop) ELSE s

\* faulty variant: the scan starts at the second sample
ScanStartSkipFirst(a) == ScanStartTo(a, IF Len(a) > 0 THEN 1 ELSE 0, Len(a))

\* lines 167-170: start = 0; while (start < size && ...) ++start
ScanStart(a) == ScanStartTo(a, 0, Len(a))

\* lines 173-175: the loop "while (end > stop && |a[end - 1]| < threshold)
\* --end" and where it leaves end, walked by halves from the top
RECURSIVE ScanEndTo(_, _, _)
ScanEndTo(a, end, stop) ==
    IF end <= stop
    THEN end
    ELSE IF end - stop = 1
    THEN (IF IsSilent(a[end]) THEN end - 1 ELSE end)
    ELSE LET mid == (end + stop) \div 2
             e == ScanEndTo(a, end, mid)
         IN IF e = mid THEN ScanEndTo(a, mid, stop) ELSE e

\* lines 172-175: end = size; while (end > start && ...) --end
ScanEnd(a, start) == ScanEndTo(a, Len(a), start)

\* line 178: vector(audioData.begin() + start, audioData.begin() + end)
TrimmedRange(a, start, end) == SubSeq(a, start + 1, end)

\* lines 164-178 on a buffer of its own
TrimOf(a) ==
    LET s == ScanStart(a)
        e == ScanEnd(a, s)
    IN [start |-> s, end |-> e, out |-> TrimmedRange(a, s, e)]

\* --------------------------------------------------------- the inputs
\* argv[1], a string of characters
FileNames ==
    { <<"a", ".", "p", "n", "g">>,
      <<"a", ".", "j", "p", "g">> }

\* line 19: std::string(argv[1]).find(".png") != npos
HasPng(name) ==
    \E k \in 1..Len(name) :
        /\ k + 3 <= Len(name)
        /\ SubSeq(name, k, k + 3) = <<".", "p", "n", "g">>

\* The pictures a file may hold, as (gray, alpha) bytes per pixel of the
\* source picture of h rows and w columns; gray is what cvtColor yields.
Pictures ==
    {"black", "blackClear", "white", "whiteClear", "diag", "lastColumn",
     "faint"}

GrayOf(pic, r, c, w) ==
    CASE pic \in {"black", "blackClear"} -> 0
      [] pic \in {"white", "whiteClear"} -> 255
      [] pic = "diag" -> IF r = c THEN 255 ELSE 0
      [] pic = "lastColumn" -> IF c = w - 1 THEN 255 ELSE 0
      [] pic = "faint" -> 3

AlphaOf(pic) == IF pic \in {"blackClear", "whiteClear"} THEN 0 ELSE 255

Picture(pic, h, w) ==
    [kind |-> "rgba",
     gray |-> [rows |-> h, cols |-> w,
               data |-> [r \in 1..h |-> [c \in 1..w |-> GrayOf(pic, r - 1, c - 1, w)]]],
     alpha |-> [rows |-> h, cols |-> w,
                data |-> [r \in 1..h |-> [c \in 1..w |-> AlphaOf(pic)]]]]

\* what cv::imread finds: nothing readable, a picture without an alpha
\* channel, or a 4-channel picture.  The grid has the picture's width as its
\* rows and its height as its columns.
Files ==
    { [kind |-> "unreadable", gray |-> EmptyMat, alpha |-> EmptyMat],
      [kind |-> "rgb", gray |-> EmptyMat, alpha |-> EmptyMat] }
    \cup { Picture(pic, h, w) : pic \in Pictures, h \in 1..MaxCols, w \in 1..MaxRows }

\* ----------------------------------------------------------- the state
VARIABLES
    pc,                 \* where the run is
    argc, argv1,        \* the command line
    file,               \* what imread finds at argv[1]
    sfOpenOk,           \* whether sf_open can open the output file
    image, alphaChannel,\* processedImage and alphaChannel of main
    outFile,            \* "null", "open" or "closed"
    audioData, row,     \* the buffer and the row loop of generateWavFile
    start, end, trimmedAudioData,
    sinkWrites,         \* the buffers handed to sf_write_short, in order
    cerr,               \* the messages written to std::cerr
    exitCode,           \* main's return value, -1 while it runs
    fpEvents,           \* floating-point events so far
    tIn, tRuns,         \* the trimmer alone: a buffer and its successive trims
    qIn, qOut           \* the quantiser alone: a sampleValue and its sample

vars ==
    <<pc, argc, argv1, file, sfOpenOk, image, alphaChannel, outFile, audioData,
      row, start, end, trimmedAudioData, sinkWrites, cerr, exitCode, fpEvents,
      tIn, tRuns, qIn, qOut>>

runVars ==
    <<pc, argc, argv1, file, sfOpenOk, image, alphaChannel, outFile, audioData,
      row, start, end, trimmedAudioData, sinkWrites, cerr, exitCode, fpEvents>>

unitVars == <<tIn, tRuns, qIn, qOut>>

\* the state of main before its first statement
RunInit ==
    /\ pc = "main"
    /\ image = EmptyMat
    /\ alphaChannel = EmptyMat
    /\ outFile = "null"
    /\ audioData = <<>>
    /\ row = 0
    /\ start = 0
    /\ end = 0
    /\ trimmedAudioData = <<>>
    /\ sinkWrites = <<>>
    /\ cerr = <<>>
    /\ exitCode = -1
    /\ fpEvents = {}

UnitIdle ==
    /\ tIn = <<>>
    /\ tRuns = <<>>
    /\ qIn = 0
    /\ qOut = <<>>

Init ==
    /\ RunInit
    /\ argc \in {1, 2, 3}
    /\ argv1 \in FileNames
    /\ file \in Files
    /\ sfOpenOk \in BOOLEAN
    /\ UnitIdle

\* ------------------------------------------------------------- main
\* lines 15-26
Main_CheckArgs ==
    /\ pc = "main"
    /\ IF argc # 2
       THEN /\ cerr' = Append(cerr, "Usage")
            /\ exitCode' = 1
            /\ pc' = "done"
       ELSE IF ~HasPng(argv1)
       THEN /\ cerr' = Append(cerr, "not a PNG image")
            /\ exitCode' = 1
            /\ pc' = "done"
       ELSE /\ pc' = "processImage"
            /\ UNCHANGED <<cerr, exitCode>>
    /\ UNCHANGED <<argc, argv1, file, sfOpenOk, image, alphaChannel, outFile,
                   audioData, row, start, end, trimmedAudioData, sinkWrites,
                   fpEvents>>
    /\ UNCHANGED unitVars

\* lines 28, 44-101: processImage
ProcessImage ==
    /\ pc = "processImage"
    /\ IF file.kind = "unreadable"
       THEN /\ cerr' = Append(cerr, "Could not open or find the image")
            /\ UNCHANGED <<image, alphaChannel>>
       ELSE IF file.kind # "rgba"
       THEN /\ cerr' = Append(cerr, "Image does not have 4 channels")
            /\ UNCHANGED <<image, alphaChannel>>
       ELSE /\ image' = Orient(file.gray)
            /\ alphaChannel' = Orient(file.alpha)
            /\ UNCHANGED cerr
    /\ pc' = "checkProcessed"
    /\ UNCHANGED <<argc, argv1, file, sfOpenOk, outFile, audioData, row, start,
                   end, trimmedAudioData, sinkWrites, exitCode, fpEvents>>
    /\ UNCHANGED unitVars

\* lines 30-36
Main_CheckProcessed ==
    /\ pc = "checkProcessed"
    /\ IF IsEmpty(image) \/ IsEmpty(alphaChannel)
       THEN /\ exitCode' = 1
            /\ pc' = "done"
       ELSE /\ pc' = "generateWavFile"
            /\ UNCHANGED exitCode
    /\ UNCHANGED <<argc, argv1, file, sfOpenOk, image, alphaChannel, outFile,
                   audioData, row, start, end, trimmedAudioData, sinkWrites,
                   cerr, fpEvents>>
    /\ UNCHANGED unitVars

\* lines 40-41: generateWavFile has returned, however it returned
Main_Return ==
    /\ pc = "return"
    /\ exitCode' = 0
    /\ pc' = "done"
    /\ UNCHANGED <<argc, argv1, file, sfOpenOk, image, alphaChannel, outFile,
                   audioData, row, start, end, trimmedAudioData, sinkWrites,
                   cerr, fpEvents>>
    /\ UNCHANGED unitVars

\* --------------------------------------------------- generateWavFile
\* lines 106-115
Gen_Validate ==
    /\ pc = "generateWavFile"
    /\ IF IsEmpty(image) \/ IsEmpty(alphaChannel)
       THEN /\ cerr' = Append(cerr, "No image data to convert to WAV")
            /\ pc' = "return"
       ELSE IF MatSize(image) # MatSize(alphaChannel)
       THEN /\ cerr' = Append(cerr, "dimensions do not match")
            /\ pc' = "return"
       ELSE /\ pc' = "sf_open"
            /\ UNCHANGED cerr
    /\ UNCHANGED <<argc, argv1, file, sfOpenOk, image, alphaChannel, outFile,
                   audioData, row, start, end, trimmedAudioData, sinkWrites,
                   exitCode, fpEvents>>
    /\ UNCHANGED unitVars

\* lines 118-137
Gen_Open ==
    /\ pc = "sf_open"
    /\ IF sfOpenOk
       THEN /\ outFile' = "open"
            /\ pc' = "synth"
            /\ UNCHANGED cerr
       ELSE /\ cerr' = Append(cerr, "Could not open output WAV file")
            /\ pc' = "return"
            /\ UNCHANGED outFile
    /\ UNCHANGED <<argc, argv1, file, sfOpenOk, image, alphaChannel, audioData,
                   row, start, end, trimmedAudioData, sinkWrites, exitCode,
                   fpEvents>>
    /\ UNCHANGED unitVars

\* lines 139-162: one iteration of the row loop
Gen_SynthRow ==
    /\ pc = "synth"
    /\ row < image.rows
    /\ \E scaled \in {RowScaled(image, alphaChannel, row)} :
         \E ev \in {RowEvents(image.cols, scaled)} :
            /\ \E ub \in (IF ev \cap {"castNaN", "castOverflow"} = {}
                          THEN {0} ELSE UndefinedShorts) :
                  audioData' = audioData \o RowSamples(scaled, ub)
            /\ fpEvents' = fpEvents \cup ev
    /\ row' = row + 1
    /\ UNCHANGED <<pc, argc, argv1, file, sfOpenOk, image, alphaChannel, outFile,
                   start, end, trimmedAudioData, sinkWrites, cerr, exitCode>>
    /\ UNCHANGED unitVars

\* lines 164-178, after the last row
Gen_Trim ==
    /\ pc = "synth"
    /\ ~(row < image.rows)
    /\ start' = ScanStart(audioData)
    /\ end' = ScanEnd(audioData, start')
    /\ trimmedAudioData' = TrimmedRange(audioData, start', end')
    /\ pc' = "write"
    /\ UNCHANGED <<argc, argv1, file, sfOpenOk, image, alphaChannel, outFile,
                   audioData, row, sinkWrites, cerr, exitCode, fpEvents>>
    /\ UNCHANGED unitVars

\* faulty variant: the untrimmed buffer is written
Gen_WriteUntrimmed ==
    /\ pc = "write"
    /\ sinkWrites' = Append(sinkWrites, audioData)
    /\ pc' = "close"
    /\ UNCHANGED <<argc, argv1, file, sfOpenOk, image, alphaChannel, outFile,
                   audioData, row, start, end, trimmedAudioData, cerr, exitCode,
                   fpEvents>>
    /\ UNCHANGED unitVars

\* line 181: sf_write_short(outFile, data, size)
Gen_Write ==
    /\ pc = "write"
    /\ sinkWrites' = Append(sinkWrites, trimmedAudioData)
    /\ pc' = "close"
    /\ UNCHANGED <<argc, argv1, file, sfOpenOk, image, alphaChannel, outFile,
                   audioData, row, start, end, trimmedAudioData, cerr, exitCode,
                   fpEvents>>
    /\ UNCHANGED unitVars

\* lines 184-187
Gen_Close ==
    /\ pc = "close"
    /\ outFile' = "closed"
    /\ pc' = "return"
    /\ UNCHANGED <<argc, argv1, file, sfOpenOk, image, alphaChannel, audioData,
                   row, start, end, trimmedAudioData, sinkWrites, cerr, exitCode,
                   fpEvents>>
    /\ UNCHANGED unitVars

Next ==
    \/ Main_CheckArgs
    \/ ProcessImage
    \/ Main_CheckProcessed
    \/ Gen_Validate
    \/ Gen_Open
    \/ Gen_SynthRow
    \/ Gen_Trim
    \/ Gen_Write
    \/ Gen_Close
    \/ Main_Return

Spec == Init /\ [][Next]_vars

\* ------------------------------------------- the trimmer, on its own
SampleValues == {-32768, -500, -499, 0, 499, 500}

RECURSIVE Buffers(_)
Buffers(n) ==
    IF n = 0
    THEN {<<>>}
    ELSE LET shorter == Buffers(n - 1)
         IN shorter \cup { Append(b, x) : b \in {s \in shorter : Len(s) = n - 1},
                                          x \in SampleValues }

TrimInit ==
    /\ RunInit
    /\ argc = 2
    /\ argv1 = <<"a", ".", "p", "n", "g">>
    /\ file = [kind |-> "unreadable", gray |-> EmptyMat, alpha |-> EmptyMat]
    /\ sfOpenOk = TRUE
    /\ tIn \in Buffers(MaxLen)
    /\ tRuns = <<>>
    /\ qIn = 0
    /\ qOut = <<>>

\* lines 164-178 applied to tIn, and then to what it returned
TrimAgain ==
    /\ Len(tRuns) < 2
    /\ tRuns' = Append(tRuns, TrimOf(IF tRuns = <<>> THEN tIn
                                     ELSE tRuns[Len(tRuns)].out))
    /\ UNCHANGED <<tIn, qIn, qOut>>
    /\ UNCHANGED runVars

TrimNext == TrimAgain

SpecTrim == TrimInit /\ [][TrimNext]_vars

\* ----------------------------------------- the quantiser, on its own
QuantInit ==
    /\ RunInit
    /\ argc = 2
    /\ argv1 = <<"a", ".", "p", "n", "g">>
    /\ file = [kind |-> "unreadable", gray |-> EmptyMat, alpha |-> EmptyMat]
    /\ sfOpenOk = TRUE
    /\ tIn = <<>>
    /\ tRuns = <<>>
    /\ qIn \in (0 - One - MaxExcess)..(One + MaxExcess)
    /\ qOut = <<>>

\* lines 153-154 applied to the accumulated sum qIn
Quantise ==
    /\ qOut = <<>>
    /\ qOut' = <<ToShort(Scale(Clamp(qIn)), 0)>>
    /\ UNCHANGED <<tIn, tRuns, qIn>>
    /\ UNCHANGED runVars

QuantNext == Quantise

SpecQuant == QuantInit /\ [][QuantNext]_vars

\* ------------------------------------------------------------ claims
Loud(x) == x >= silenceThreshold \/ x <= -silenceThreshold

AfterTrim == pc \in {"write", "close"} \/ (pc \in {"return", "done"} /\ outFile = "closed")

ZeroIntensity ==
    /\ ~IsEmpty(image)
    /\ \A r \in 0..(image.rows - 1) : \A c \in 0..(image.cols - 1) : At(image, r, c) = 0

ZeroOpacity ==
    /\ ~IsEmpty(alphaChannel)
    /\ \A r \in 0..(alphaChannel.rows - 1) :
          \A c \in 0..(alphaChannel.cols - 1) : At(alphaChannel, r, c) = 0

MaximalGrid ==
    /\ ~IsEmpty(image)
    /\ \A r \in 0..(image.rows - 1) :
          \A c \in 0..(image.cols - 1) :
              At(image, r, c) = 255 /\ At(alphaChannel, r, c) = 255

\* C1: on a grid with at least two columns every sample appended to the
\* buffer lies in [-32768, 32767], and no conversion to short was given a NaN
\* or a value outside the range of short.
C1_SamplesInRange ==
    image.cols >= 2 =>
        /\ \A k \in 1..Len(audioData) : audioData[k] >= -32768 /\ audioData[k] <= 32767
        /\ fpEvents \cap {"castNaN", "castOverflow"} = {}

\* C1 witness: a finished run on a grid of two or more columns in which the
\* clamp acted in both directions.
C1_Witness ==
    /\ pc = "done"
    /\ image.cols >= 2
    /\ \E k \in 1..Len(audioData) : audioData[k] = 32767
    /\ \E k \in 1..Len(audioData) : audioData[k] = -32767

\* the buffer the n-th trim of the trimmer's specification was applied to
TrimInput(n) == IF n = 1 THEN tIn ELSE tRuns[n - 1].out

\* C2: the trimmer returns the contiguous range [start, end) of its input,
\* start the smallest index of a sample with |sample| >= 500 (the length if
\* there is none), end one past the largest such index (start if there is
\* none), 0 <= start <= end <= length, and a non-empty result begins and ends
\* with such a sample.
C2_TrimIsLoudRange ==
    \A n \in 1..Len(tRuns) :
        LET a == TrimInput(n)
            t == tRuns[n]
            loud == {k \in 0..(Len(a) - 1) : Loud(a[k + 1])}
        IN /\ 0 <= t.start /\ t.start <= t.end /\ t.end <= Len(a)
           /\ Len(t.out) = t.end - t.start
           /\ \A k \in 1..Len(t.out) : t.out[k] = a[t.start + k]
           /\ IF loud = {}
              THEN t.start = Len(a) /\ t.end = Len(a)
              ELSE /\ t.start \in loud
                   /\ \A k \in loud : t.start <= k /\ k < t.end
                   /\ (t.end - 1) \in loud
           /\ t.out # <<>> => Loud(t.out[1]) /\ Loud(t.out[Len(t.out)])

\* C2 witness: a trim that removed samples at both ends and kept a quiet
\* sample between two loud ones.
C2_Witness ==
    /\ Len(tRuns) >= 1
    /\ tRuns[1].start > 0
    /\ tRuns[1].end < Len(tIn)
    /\ \E k \in 1..Len(tRuns[1].out) : ~Loud(tRuns[1].out[k])

C4_MaximalGridUntrimmed ==
    (image.cols >= 2 /\ MaximalGrid /\ AfterTrim) =>
        /\ Abs(audioData[1]) > silenceThreshold
        /\ Abs(audioData[Len(audioData)]) > silenceThreshold
        /\ start = 0
        /\ end = image.rows * samplesPerRow
        /\ trimmedAudioData = audioData

\* C4 amended: on a grid of two or more columns of maximal intensity and
\* opacity the first sample is 0 (t = 0), the second is at or above the
\* threshold, so trimming removes exactly the first sample at the front:
\* start = 1, and the trimmed buffer is the range [1, end), shorter than the
\* untrimmed buffer.
C4_MaximalGridLosesFirstSample ==
    (image.cols >= 2 /\ MaximalGrid) =>
        /\ Len(audioData) > 0 => audioData[1] = 0 /\ Loud(audioData[2])
        /\ AfterTrim => /\ start = 1
                        /\ end > start
                        /\ Len(trimmedAudioData) = end - 1
                        /\ Len(trimmedAudioData) < Len(audioData)
                        /\ trimmedAudioData[1] = audioData[2]

\* C4 witness: a finished run on a maximal grid of two columns.
C4_Witness ==
    /\ pc = "done"
    /\ image.cols >= 2
    /\ MaximalGrid
    /\ start = 1
    /\ Len(sinkWrites) = 1

\* C5: trimming what a trim returned returns it unchanged.
C5_TrimIdempotent ==
    Len(tRuns) = 2 =>
        /\ tRuns[2].out = tRuns[1].out
        /\ tRuns[2].start = 0
        /\ tRuns[2].end = Len(tRuns[1].out)

\* C5 witness: a second trim applied to a non-empty buffer that the first
\* trim had shortened.
C5_Witness ==
    /\ Len(tRuns) = 2
    /\ tRuns[1].out # <<>>
    /\ Len(tRuns[1].out) < Len(tIn)

\* C6: a finished run that reported an error has exit code 1, and a finished
\* run has exit code 0 only if the trimmed buffer was written to the sink.
C6_ErrorsExitOne ==
    pc = "done" =>
        /\ cerr # <<>> => exitCode = 1
        /\ exitCode = 0 => sinkWrites = <<trimmedAudioData>> /\ outFile = "closed"

\* C7: on a grid of one column no division by cols - 1 = 0 is evaluated and
\* no sample is the conversion of a NaN.
C7_SingleColumnFinite ==
    image.cols = 1 => fpEvents \cap {"div0", "castNaN"} = {}

\* C8 as stated: the sample is the clamped value times 32767 rounded to the
\* nearest integer.
C8_QuantiseRounds ==
    qOut # <<>> =>
        LET x == Scale(Clamp(qIn))
        IN 2 * Abs(x - qOut[1] * One) <= One

\* C8 amended: the sample is the clamped value times 32767 truncated toward
\* zero: |q| <= |x| < |q| + 1 with the sign of x, so 499.98 becomes 499.
C8_QuantiseTruncates ==
    qOut # <<>> =>
        LET x == Scale(Clamp(qIn))
            q == qOut[1]
        IN /\ Abs(q) * One <= Abs(x)
           /\ Abs(x) < (Abs(q) + 1) * One
           /\ q # 0 => Sgn(q) = Sgn(x)
           /\ q >= -32767 /\ q <= 32767

\* C8 witness: a scaled value with a fractional part of at least one half,
\* quantised to 499.
C8_Witness ==
    /\ qOut = <<499>>
    /\ 2 * (Abs(Scale(Clamp(qIn))) - 499 * One) >= One

\* one row of a matrix, as a matrix
RowOnly(m, r) == [rows |-> 1, cols |-> m.cols, data |-> <<m.data[r + 1]>>]

\* C9: while the rows are synthesised the buffer holds row * samplesPerRow
\* samples, samplesPerRow = 4410, afterwards rows * samplesPerRow, and (on a
\* grid of two or more columns) the sample at index k is the one computed at
\* time index k from the pixels of row k div samplesPerRow alone.
C9_RowsInOrder ==
    /\ samplesPerRow = 4410
    /\ pc = "synth" => Len(audioData) = row * samplesPerRow
    /\ AfterTrim => Len(audioData) = image.rows * samplesPerRow
    /\ (pc = "synth" /\ image.cols >= 2) =>
          \A r \in 0..(row - 1) :
              LET im == RowOnly(image, r)
                  al == RowOnly(alphaChannel, r)
              IN \A i \in 0..(samplesPerRow - 1) :
                    LET k == r * samplesPerRow + i
                    IN audioData[k + 1] =
                          ToShort(Scale(Clamp(Accumulate(im, al, 0, 0, k, 0))), 0)

\* C9 witness: two rows synthesised, the second differing from the first.
C9_Witness ==
    /\ pc = "synth"
    /\ row = 2
    /\ image.cols >= 2
    /\ Len(audioData) = 2 * samplesPerRow
    /\ \E i \in 1..samplesPerRow : audioData[i] # audioData[samplesPerRow + i]

\* C10: nothing is written before every row is synthesised and the buffer is
\* trimmed, the sink receives at most one write, which carries the trimmed
\* buffer, a run that ends without an error made exactly that one write, and
\* a run that reported an error or ended with exit code 1 never opened the
\* output file nor synthesised or wrote anything.
C10_StagesInOrder ==
    /\ Len(sinkWrites) <= 1
    /\ pc = "synth" => sinkWrites = <<>> /\ trimmedAudioData = <<>> /\ outFile = "open"
    /\ (AfterTrim \/ sinkWrites # <<>>) =>
          /\ row = image.rows
          /\ Len(audioData) = image.rows * samplesPerRow
          /\ trimmedAudioData = SubSeq(audioData, start + 1, end)
    /\ pc = "write" => sinkWrites = <<>>
    /\ sinkWrites # <<>> =>
          /\ pc \in {"close", "return", "done"}
          /\ sinkWrites[1] = trimmedAudioData
    /\ (pc = "done" /\ cerr = <<>> /\ exitCode = 0) => Len(sinkWrites) = 1
    /\ (cerr # <<>> \/ exitCode = 1) =>
          outFile = "null" /\ sinkWrites = <<>> /\ audioData = <<>>

\* C10 witness: a finished run whose single write carried a buffer that
\* trimming had shortened.
C10_Witness ==
    /\ pc = "done"
    /\ Len(sinkWrites) = 1
    /\ sinkWrites[1] # <<>>
    /\ Len(sinkWrites[1]) < Len(audioData)

=============================================================================
